---- MODULE Spec2Model ----
(***************************************************************************)
(* The tool-orchestration session of mcp-client/client.py: main(), the     *)
(* session shell (chat_loop), the multi-round engine                       *)
(* (process_query_openai), the single-call variant                         *)
(* (process_query_anthropic) and the content normalizer                    *)
(* (_content_to_text).                                                     *)
(*                                                                         *)
(* Text is a sequence of tokens.  A token is a one-character string, or a  *)
(* whole fixed phrase of the program (a prompt file, a marker) that no     *)
(* input of the model contains, so that equality of token sequences is     *)
(* equality of the strings they stand for.                                 *)
(***************************************************************************)
EXTENDS Integers, Sequences, FiniteSets, TLC

(***************************************************************************)
(* Bounds of the model.                                                    *)
(***************************************************************************)
\* tool-call ids the backend hands out in one session (it never repeats one)
MaxIds == 2
\* input lines the shell reads in one session
MaxTurns == 2

(***************************************************************************)
(* State.                                                                  *)
(***************************************************************************)
VARIABLES
    \* main() and chat_loop
    shellPc,         \* where main() stands
    argv,            \* sys.argv[1:]
    session,         \* self.session: "none" or "open"
    transport,       \* the stdio transport: "none", "open", "released"
    cleanupCalls,    \* how often cleanup() was invoked
    full_context,    \* chat_loop's running context
    linesRead,       \* the lines input() returned, in order
    dispatched,      \* the queries handed to process_query_openai, in order
    printedErrors,   \* how many "Error: ..." lines chat_loop printed
    exitCode,        \* "running", 0 or 1
    child,           \* the interpreter of the spawned server: "none", "python", "node"
    readAttempts,    \* how often input() was called
    pending,         \* the exception main()'s finally block was entered with
    \* the backend
    idsUsed,         \* how many tool-call ids the backend has handed out
    \* the tool provider
    catalog,         \* the tools it offers at the moment
    \* _content_to_text and the schema translations, called on their own
    normPc,          \* "idle", "ready", "returned", "raised"
    normInput,       \* the argument of _content_to_text
    normResult,      \* what it returned
    schemaPc,        \* "idle", "ready", "translated"
    openaiSchema,    \* available_tools as process_query_openai builds it
    anthropicSchema, \* available_tools as process_query_anthropic builds it
    \* process_query_anthropic
    aPc,             \* "idle", "list_tools", "await_model", "await_tool",
                     \* "await_followup", "done", "raised"
    aMessages,       \* messages; an assistant entry holds a reference to the
                     \* one list assistant_message_content
    aAssistant,      \* assistant_message_content
    aFinal,          \* final_text
    aContent,        \* the content blocks the for loop iterates over
    aIdx,            \* the position of the for loop in them
    aScript,         \* the responses the backend will give, in order
    aOutcomes,       \* the results call_tool will give, in order
    aModelCalls,     \* messages.create calls made
    aInvocations,    \* the call_tool requests, in order
    aReturned,       \* the return value, when aPc = "done"
    \* process_query_openai
    enginePc,        \* "idle", "list_tools", "await_model", "await_tool",
                     \* "done", "raised"
    messages,        \* the history
    final_text,      \* the output buffer
    available_tools, \* the schema sent with every completion of the query
    listCalls,       \* list_tools() queries made in this query
    tool_calls,      \* the tool calls of the round being executed
    toolIdx,         \* the position of the for loop in tool_calls
    modelCalls,      \* completions requested in this query
    responses,       \* the completions received in this query, in order
    invocations,     \* the call_tool requests of this query, in order
    failedCalls,     \* ids of the calls whose invocation failed
    modelOut,        \* completions requested and not yet answered
    toolOut,         \* call_tool requests sent and not yet answered
    raisedBy,        \* which await raised, when enginePc = "raised"
    returned         \* the return value, when enginePc = "done"

shellVars == <<shellPc, argv, session, transport, cleanupCalls, full_context,
               linesRead, dispatched, printedErrors, exitCode, child,
               readAttempts, pending>>

engineVars == <<enginePc, messages, final_text, available_tools, listCalls, tool_calls,
                toolIdx, modelCalls, responses, invocations, failedCalls,
                modelOut, toolOut, raisedBy, returned>>

anthropicVars == <<aPc, aMessages, aAssistant, aFinal, aContent, aIdx, aScript,
                   aOutcomes, aModelCalls, aInvocations, aReturned>>

unitVars == <<normPc, normInput, normResult, schemaPc, openaiSchema,
              anthropicSchema>>

vars == <<shellVars, engineVars, idsUsed, anthropicVars, catalog, unitVars>>

(***************************************************************************)
(* Text helpers.                                                           *)
(***************************************************************************)
NL == "\n"

RECURSIVE Flatten(_)
\* the concatenation of a sequence of texts
Flatten(parts) ==
    IF parts = <<>> THEN <<>> ELSE Head(parts) \o Flatten(Tail(parts))

RECURSIVE JoinWith(_, _)
\* sep.join(parts)
JoinWith(sep, parts) ==
    IF parts = <<>> THEN <<>>
    ELSE IF Len(parts) = 1 THEN Head(parts)
    ELSE Head(parts) \o sep \o JoinWith(sep, Tail(parts))

\* "\n".join(parts)
JoinNL(parts) == JoinWith(<<NL>>, parts)

\* the elements of a sequence of texts that are non-empty, in order
NonEmpty(parts) == SelectSeq(parts, LAMBDA p : p # <<>>)

IsPrefix(s, t) == Len(s) <= Len(t) /\ SubSeq(t, 1, Len(s)) = s

(***************************************************************************)
(* Content values: what _content_to_text is handed.                        *)
(*   null | str | list of contents | dict (ordered key/value entries)      *)
(*   | obj: an opaque object, with or without a text attribute, whose      *)
(*     str() is repr.                                                      *)
(***************************************************************************)
CNull == [kind |-> "null"]
CStr(s) == [kind |-> "str", s |-> s]
CList(items) == [kind |-> "list", items |-> items]
CDict(entries) == [kind |-> "dict", entries |-> entries]
CObj(hasText, text, repr) ==
    [kind |-> "obj", hasText |-> hasText, text |-> text, repr |-> repr]
\* an entry of a dict whose key is a string
Entry(k, v) == [k |-> k, v |-> v, strKey |-> TRUE]
\* an entry of a dict whose key is a tuple, k being the str() of the key
TupleKeyEntry(k, v) == [k |-> k, v |-> v, strKey |-> FALSE]

TextKey == <<"t", "e", "x", "t">>

\* json.dumps' escaping of one character of a string
JsonEscape(ch) ==
    IF ch = "\"" THEN <<"\\", "\"">>
    ELSE IF ch = "\\" THEN <<"\\", "\\">>
    ELSE IF ch = NL THEN <<"\\", "n">>
    ELSE <<ch>>

\* json.dumps of a string
JsonString(s) ==
    <<"\"">> \o Flatten([i \in 1..Len(s) |-> JsonEscape(s[i])]) \o <<"\"">>

RECURSIVE JsonDumps(_)
\* json.dumps(content, default=str)
JsonDumps(c) ==
    IF c.kind = "null" THEN <<"n", "u", "l", "l">>
    ELSE IF c.kind = "str" THEN JsonString(c.s)
    ELSE IF c.kind = "list" THEN
        <<"[">> \o JoinWith(<<",", " ">>,
                     [i \in 1..Len(c.items) |-> JsonDumps(c.items[i])]) \o <<"]">>
    ELSE IF c.kind = "dict" THEN
        <<"{">> \o JoinWith(<<",", " ">>,
                     [i \in 1..Len(c.entries) |->
                        JsonString(c.entries[i].k) \o <<":", " ">>
                            \o JsonDumps(c.entries[i].v)]) \o <<"}">>
    ELSE JsonString(c.repr)

RECURSIVE JsonDumpsRaises(_)
\* json.dumps(content, default=str) raises TypeError: `default` is applied to
\* values only, a key that is not a string (or a number, a bool, None) is
\* refused
JsonDumpsRaises(c) ==
    IF c.kind = "list" THEN \E i \in 1..Len(c.items) : JsonDumpsRaises(c.items[i])
    ELSE IF c.kind = "dict" THEN
        \E i \in 1..Len(c.entries) :
            ~c.entries[i].strKey \/ JsonDumpsRaises(c.entries[i].v)
    ELSE FALSE

\* "text" in content and isinstance(content["text"], str)
DictHasStrText(c) ==
    \E i \in 1..Len(c.entries) :
        /\ c.entries[i].strKey
        /\ c.entries[i].k = TextKey
        /\ c.entries[i].v.kind = "str"

\* content["text"]: the value of the last entry with that key
DictText(c) ==
    LET idx == {i \in 1..Len(c.entries) :
                    c.entries[i].strKey /\ c.entries[i].k = TextKey}
        last == CHOOSE i \in idx : \A j \in idx : j <= i
    IN c.entries[last].v

RECURSIVE ContentToTextRaises(_)
\* MCPClient._content_to_text raises: the dict branch calls json.dumps outside
\* any try block, the last branch calls it inside one
ContentToTextRaises(content) ==
    IF content.kind = "list" THEN
        \E i \in 1..Len(content.items) : ContentToTextRaises(content.items[i])
    ELSE IF content.kind = "dict" THEN
        ~DictHasStrText(content) /\ JsonDumpsRaises(content)
    ELSE FALSE

RECURSIVE ContentToText(_)
\* ContentToText with the two dict cases in the other order: a record is
\* always serialized
ContentToText_serializesFirst(content) ==
    IF content.kind = "dict" THEN JsonDumps(content)
    ELSE IF content.kind = "list" THEN
        JoinNL(NonEmpty([i \in 1..Len(content.items) |->
                            ContentToText(content.items[i])]))
    ELSE IF content.kind = "null" THEN <<>>
    ELSE IF content.kind = "str" THEN content.s
    ELSE IF content.hasText /\ content.text.kind = "str" THEN content.text.s
    ELSE JsonDumps(content)

\* MCPClient._content_to_text, what it returns when it does not raise
ContentToText(content) ==
    IF content.kind = "null" THEN <<>>
    ELSE IF content.kind = "str" THEN content.s
    ELSE IF content.kind = "list" THEN
        JoinNL(NonEmpty([i \in 1..Len(content.items) |->
                            ContentToText(content.items[i])]))
    ELSE IF content.kind = "dict" THEN
        IF DictHasStrText(content) THEN DictText(content).s
        ELSE JsonDumps(content)
    ELSE IF content.hasText /\ content.text.kind = "str" THEN content.text.s
    ELSE JsonDumps(content)

\* Python truthiness of a content value
Truthy(c) ==
    IF c.kind = "null" THEN FALSE
    ELSE IF c.kind = "str" THEN c.s # <<>>
    ELSE IF c.kind = "list" THEN c.items # <<>>
    ELSE IF c.kind = "dict" THEN c.entries # <<>>
    ELSE TRUE

(***************************************************************************)
(* The tool provider: its catalog and what call_tool can give back.        *)
(***************************************************************************)
ToolDescriptor(name, description, inputSchema) ==
    [name |-> name, description |-> description, inputSchema |-> inputSchema]

\* the tools voting_data.py registers (two of them stand for all)
Catalog ==
    << ToolDescriptor("get_current_date", "Get the current date", CDict(<<>>)),
       ToolDescriptor("search_web", "Search the web",
                      CDict(<<Entry(<<"q">>, CStr(<<"s">>))>>)) >>

CatalogNames == {Catalog[i].name : i \in 1..Len(Catalog)}

\* a name the backend may ask for that the provider does not offer
UnknownTool == "no_such_tool"

\* a TextContent object of a tool result
TextContent(text) == CObj(TRUE, CStr(text), <<"TextContent(...)">>)

ToolResult(isError, content) == [isError |-> isError, content |-> content]

UnknownToolText == <<"Unknown tool: no_such_tool">>

\* the results call_tool can return for a tool name, when it returns
ToolResults(name) ==
    IF name \in {catalog[i].name : i \in 1..Len(catalog)}
    THEN { ToolResult(FALSE, CList(<<TextContent(<<"2026-11-01">>)>>)),
           ToolResult(FALSE, CList(<<>>)) }
    ELSE { ToolResult(TRUE, CList(<<TextContent(UnknownToolText)>>)) }

(***************************************************************************)
(* The backend: what one chat completion can carry.                        *)
(***************************************************************************)
EmptyObject == CDict(<<>>)

\* the JSON values the arguments of a tool call are drawn from
JsonValues == {EmptyObject, CDict(<<Entry(<<"q">>, CStr(<<"x">>))>>), CNull}

\* json.loads raises JSONDecodeError on s
JsonDecodeError(s) == ~ \E v \in JsonValues : JsonDumps(v) = s

\* json.loads(s), where it does not raise
JsonLoads(s) == CHOOSE v \in JsonValues : JsonDumps(v) = s

NotJson == <<"n", "o", "t", " ", "j", "s", "o", "n">>

ToolCall(id, name, arguments) ==
    [id |-> id, type |-> "function",
     function |-> [name |-> name, arguments |-> arguments]]

\* message.content of a completion: None, or a list of parts (a string part,
\* an empty part)
MessageContents == { CNull, CList(<<CStr(<<"a">>), CStr(<<>>)>>) }

\* the name and raw arguments a backend may put in one tool call
CallKinds ==
    { [name |-> "get_current_date",
       arguments |-> CStr(JsonDumps(CDict(<<Entry(<<"q">>, CStr(<<"x">>))>>)))],
      [name |-> "get_current_date", arguments |-> CStr(NotJson)],
      [name |-> UnknownTool, arguments |-> CNull] }

\* the tool_calls a completion can carry when `used` ids were handed out
\* before: each call gets the next fresh id
ToolCallSeqs(used) ==
    UNION { { [i \in 1..n |-> ToolCall(used + i, kf[i].name, kf[i].arguments)] :
                kf \in [1..n -> CallKinds] } :
            n \in 0..(MaxIds - used) }

(***************************************************************************)
(* process_query_openai: the pieces of one round.                          *)
(***************************************************************************)
UserMessage(query) == [role |-> "user", content |-> CStr(query)]

\* SchemaOpenAI that sends every tool with an empty parameters object
SchemaOpenAI_emptyParameters(tools) ==
    [i \in 1..Len(tools) |->
        [type |-> "function",
         function |-> [name |-> tools[i].name,
                       description |-> tools[i].description,
                       parameters |-> CDict(<<>>)]]]

\* available_tools of process_query_openai
SchemaOpenAI(tools) ==
    [i \in 1..Len(tools) |->
        [type |-> "function",
         function |-> [name |-> tools[i].name,
                       description |-> tools[i].description,
                       parameters |-> tools[i].inputSchema]]]

\* the assistant message appended to the history for a round with tool calls
AssistantMessage(content, calls, message_text) ==
    [role |-> "assistant",
     content |-> IF Truthy(content) THEN content ELSE CStr(message_text),
     tool_calls |-> calls]

\* HistoryAfterResponse with the append placed before the break
HistoryAfterResponse_always(content, calls, message_text) ==
    Append(messages, AssistantMessage(content, calls, message_text))

\* the history after a completion: unchanged when it carries no tool calls
\* (the loop breaks before the append), else with the assistant message
HistoryAfterResponse(content, calls, message_text) ==
    IF calls = <<>> THEN messages
    ELSE Append(messages, AssistantMessage(content, calls, message_text))

\* the output buffer after a completion
BufferAfterResponse(message_text) ==
    IF message_text # <<>> THEN Append(final_text, message_text) ELSE final_text

\* ReturnValue giving back the last entry of the buffer alone
ReturnValue_lastOnly(buffer) ==
    IF buffer = <<>> THEN <<>> ELSE buffer[Len(buffer)]

\* the value process_query_openai returns
ReturnValue(buffer) == JoinNL(buffer)

\* ParseArguments without the fallback: a payload that does not parse is
\* passed on as it came
ParseArguments_noFallback(raw) ==
    LET arguments == IF Truthy(raw) THEN raw.s ELSE JsonDumps(EmptyObject)
    IN IF JsonDecodeError(arguments) THEN raw ELSE JsonLoads(arguments)

\* json.loads(arguments or "{}"), {} on JSONDecodeError
ParseArguments(raw) ==
    LET arguments == IF Truthy(raw) THEN raw.s ELSE JsonDumps(EmptyObject)
    IN IF JsonDecodeError(arguments) THEN EmptyObject ELSE JsonLoads(arguments)

\* ToolCallOrder taking the calls last to first
ToolCallOrder_reversed(calls) ==
    [i \in 1..Len(calls) |-> calls[Len(calls) + 1 - i]]

\* the order in which the for loop takes the tool calls of a round
ToolCallOrder(calls) == calls

\* what call_tool is asked for one tool call
Invocation(call) ==
    [id |-> call.id, name |-> call.function.name,
     arguments |-> ParseArguments(call.function.arguments)]

NoContentText == <<"Tool returned no content.">>

\* tool_response_text
ToolResponseText(result) ==
    LET text == ContentToText(result.content)
    IN IF text # <<>> THEN text ELSE NoContentText

\* ToolMessage keyed, for every call of the round, by the id of the first
ToolMessage_firstId(call, text) ==
    [role |-> "tool", tool_call_id |-> tool_calls[1].id, content |-> CStr(text)]

\* the tool message appended for one tool call
ToolMessage(call, text) ==
    [role |-> "tool", tool_call_id |-> call.id, content |-> CStr(text)]

\* LoopBreaks with a cap of two completions per query
LoopBreaks_roundCap(calls) == calls = <<>> \/ modelCalls >= 2

\* `if not tool_calls: break`, the only way out of the while True loop
LoopBreaks(calls) == calls = <<>>

\* AssistantLine without the engine's output
AssistantLine_noOutput(response) == <<"Assistant: ", NL>>

\* "Assistant: {response}\n"
AssistantLine(response) == <<"Assistant: ">> \o response \o <<NL>>

\* "User: {query}\n"
UserLine(query) == <<"User: ">> \o query \o <<NL>>

(***************************************************************************)
(* process_query_openai: the steps between two awaits, each together with  *)
(* what chat_loop does when the engine returns or raises.                  *)
(***************************************************************************)
\* EngineRaises with no except clause around the turn: nothing is printed and
\* the loop is left
EngineRaises_propagates(what) ==
    /\ enginePc' = "raised"
    /\ raisedBy' = what
    /\ modelOut' = 0
    /\ toolOut' = 0
    /\ shellPc' = "exited"
    /\ UNCHANGED <<argv, session, transport, cleanupCalls, full_context,
                   linesRead, dispatched, exitCode, child, readAttempts, pending,
                   printedErrors>>
    /\ UNCHANGED <<messages, final_text, available_tools, listCalls, tool_calls, toolIdx,
                   modelCalls, responses, invocations, returned>>

\* an Exception leaves process_query_openai at the await named by `what`;
\* chat_loop's except clause prints it and goes back to input()
EngineRaises(what) ==
    /\ enginePc' = "raised"
    /\ raisedBy' = what
    /\ modelOut' = 0
    /\ toolOut' = 0
    /\ printedErrors' = printedErrors + 1
    /\ shellPc' = "read"
    /\ UNCHANGED <<argv, session, transport, cleanupCalls, full_context,
                   linesRead, dispatched, exitCode, child, readAttempts, pending>>
    /\ UNCHANGED <<messages, final_text, available_tools, listCalls, tool_calls, toolIdx,
                   modelCalls, responses, invocations, returned>>

\* list_tools() answers: the schema is built and the first completion requested
ListToolsReturn ==
    /\ UNCHANGED <<idsUsed, anthropicVars, catalog, unitVars>>
    /\ shellPc = "engine" /\ enginePc = "list_tools"
    /\ available_tools' = SchemaOpenAI(catalog)
    /\ listCalls' = listCalls + 1
    /\ final_text' = <<>>
    /\ enginePc' = "await_model"
    /\ modelCalls' = modelCalls + 1
    /\ modelOut' = modelOut + 1
    /\ UNCHANGED shellVars
    /\ UNCHANGED <<messages, tool_calls, toolIdx, responses, invocations,
                   failedCalls, toolOut, raisedBy, returned>>

\* list_tools() raises
ListToolsRaise ==
    /\ UNCHANGED <<idsUsed, anthropicVars, catalog, unitVars>>
    /\ shellPc = "engine" /\ enginePc = "list_tools"
    /\ EngineRaises("list_tools")
    /\ UNCHANGED failedCalls

\* the completion request raises
ModelRaise ==
    /\ UNCHANGED <<idsUsed, anthropicVars, catalog, unitVars>>
    /\ shellPc = "engine" /\ enginePc = "await_model"
    /\ EngineRaises("create_completion")
    /\ UNCHANGED failedCalls

\* a completion arrives: the loop body up to its next await, or the return
ModelReturn ==
    /\ UNCHANGED <<anthropicVars, catalog, unitVars>>
    /\ shellPc = "engine" /\ enginePc = "await_model"
    /\ \E content \in MessageContents, calls \in ToolCallSeqs(idsUsed) :
        LET message_text == ContentToText(content)
            buffer == BufferAfterResponse(message_text)
            order == ToolCallOrder(calls)
        IN
        /\ idsUsed' = idsUsed + Len(calls)
        /\ responses' = Append(responses, [content |-> content, tool_calls |-> calls])
        /\ final_text' = buffer
        /\ messages' = HistoryAfterResponse(content, calls, message_text)
        /\ modelOut' = modelOut - 1
        /\ IF LoopBreaks(calls)
           THEN /\ enginePc' = "done"
                /\ returned' = ReturnValue(buffer)
                /\ full_context' = full_context \o AssistantLine(ReturnValue(buffer))
                /\ shellPc' = "read"
                /\ UNCHANGED <<tool_calls, toolIdx, invocations, toolOut>>
           ELSE /\ tool_calls' = order
                /\ toolIdx' = 1
                /\ invocations' = Append(invocations, Invocation(order[1]))
                /\ toolOut' = toolOut + 1
                /\ enginePc' = "await_tool"
                /\ UNCHANGED <<returned, full_context, shellPc>>
    /\ UNCHANGED <<argv, session, transport, cleanupCalls, linesRead, dispatched,
                   printedErrors, exitCode, child, readAttempts, pending>>
    /\ UNCHANGED <<available_tools, listCalls, modelCalls, failedCalls, raisedBy>>

\* call_tool answers: the tool message is appended, then the next tool call
\* is sent or, after the last one, the next completion is requested
ToolReturn ==
    /\ UNCHANGED <<idsUsed, anthropicVars, catalog, unitVars>>
    /\ shellPc = "engine" /\ enginePc = "await_tool"
    /\ \E result \in ToolResults(tool_calls[toolIdx].function.name) :
        /\ messages' = Append(messages,
                              ToolMessage(tool_calls[toolIdx], ToolResponseText(result)))
        /\ failedCalls' = IF result.isError
                          THEN failedCalls \cup {tool_calls[toolIdx].id}
                          ELSE failedCalls
    /\ IF toolIdx < Len(tool_calls)
       THEN /\ toolIdx' = toolIdx + 1
            /\ invocations' = Append(invocations, Invocation(tool_calls[toolIdx + 1]))
            /\ toolOut' = (toolOut - 1) + 1
            /\ UNCHANGED <<enginePc, modelCalls, modelOut>>
       ELSE /\ enginePc' = "await_model"
            /\ modelCalls' = modelCalls + 1
            /\ modelOut' = modelOut + 1
            /\ toolOut' = toolOut - 1
            /\ UNCHANGED <<toolIdx, invocations>>
    /\ UNCHANGED shellVars
    /\ UNCHANGED <<final_text, available_tools, listCalls, tool_calls, responses, raisedBy,
                   returned>>

\* call_tool raises (the channel to the provider failed)
ToolRaise ==
    /\ UNCHANGED <<idsUsed, anthropicVars, catalog, unitVars>>
    /\ shellPc = "engine" /\ enginePc = "await_tool"
    /\ failedCalls' = failedCalls \cup {tool_calls[toolIdx].id}
    /\ EngineRaises("call_tool")

EngineNext ==
    \/ ListToolsReturn
    \/ ListToolsRaise
    \/ ModelReturn
    \/ ModelRaise
    \/ ToolReturn
    \/ ToolRaise

(***************************************************************************)
(* main(), connect_to_server, chat_loop, cleanup.                          *)
(***************************************************************************)
\* EndsWith comparing the letters of the extension without its dot
EndsWith_ignoresDot(s, suffix) ==
    LET letters == Tail(suffix)
    IN Len(letters) <= Len(s)
         /\ SubSeq(s, Len(s) - Len(letters) + 1, Len(s)) = letters

\* str.endswith
EndsWith(s, suffix) ==
    Len(suffix) <= Len(s) /\ SubSeq(s, Len(s) - Len(suffix) + 1, Len(s)) = suffix

\* the server-script paths main() may be started with
ScriptPaths ==
    { <<"s", ".", "p", "y">>, <<"s", ".", "j", "s">>,
      <<"s", ".", "t", "x", "t">>, <<"p", "y">> }

\* str.lower() of one character
LowerChar(ch) ==
    IF ch = "Q" THEN "q" ELSE IF ch = "U" THEN "u"
    ELSE IF ch = "I" THEN "i" ELSE IF ch = "T" THEN "t" ELSE ch

\* str.lower()
Lower(s) == [i \in 1..Len(s) |-> LowerChar(s[i])]

RECURSIVE LStrip(_)
LStrip(s) == IF s # <<>> /\ Head(s) = " " THEN LStrip(Tail(s)) ELSE s

RECURSIVE RStrip(_)
RStrip(s) ==
    IF s # <<>> /\ s[Len(s)] = " " THEN RStrip(SubSeq(s, 1, Len(s) - 1)) ELSE s

\* str.strip()
Strip(s) == RStrip(LStrip(s))

Quit == <<"q", "u", "i", "t">>

\* IsQuit comparing without lower()
IsQuit_caseSensitive(query) == query = Quit

\* query.lower() == 'quit'
IsQuit(query) == Lower(query) = Quit

\* the lines input() may return
InputLines ==
    { Quit, <<" ", "Q", "u", "I", "T", " ">>, <<"h", "i">>, <<"y", "o", " ">> }

\* the text of prompts/voting_guidance_prompt.txt
VOTING_GUIDANCE_PROMPT == <<"<voting_guidance_prompt.txt>">>

\* full_context before the first line is read
InitialContext ==
    IF VOTING_GUIDANCE_PROMPT # <<>>
    THEN <<"Voting guidance instructions:\n">> \o VOTING_GUIDANCE_PROMPT \o <<NL, NL>>
    ELSE <<>>

\* MCPClient.cleanup is awaited
Cleanup ==
    /\ cleanupCalls' = cleanupCalls + 1
    /\ shellPc' = "cleanup"

\* EnterFinally as an else block: cleanup only when chat_loop returned
EnterFinally_onlyOnReturn(exc) ==
    /\ pending' = exc
    /\ IF exc = "none" THEN Cleanup
       ELSE cleanupCalls' = cleanupCalls /\ shellPc' = "exited"

\* main()'s finally block is entered, with the exception `exc` in flight
\* ("none" when chat_loop returned)
EnterFinally(exc) ==
    /\ pending' = exc
    /\ Cleanup

\* main() up to its first await
MainStart ==
    /\ UNCHANGED <<idsUsed, anthropicVars, catalog, unitVars>>
    /\ shellPc = "start"
    /\ IF Len(argv) < 1
       THEN /\ shellPc' = "exited"
            /\ exitCode' = 1
            /\ UNCHANGED <<cleanupCalls, pending, child, transport>>
       ELSE LET server_script_path == argv[1]
                is_python == EndsWith(server_script_path, <<".", "p", "y">>)
                is_js == EndsWith(server_script_path, <<".", "j", "s">>)
            IN IF ~(is_python \/ is_js)
               THEN /\ EnterFinally("ValueError")
                    /\ UNCHANGED <<exitCode, child, transport>>
               ELSE /\ child' = IF is_python THEN "python" ELSE "node"
                    /\ transport' = "open"
                    /\ shellPc' = "connect_transport"
                    /\ UNCHANGED <<cleanupCalls, pending, exitCode>>
    /\ UNCHANGED <<argv, session, full_context, linesRead, dispatched,
                   printedErrors, readAttempts>>
    /\ UNCHANGED engineVars

\* stdio_client is entered: the ClientSession is entered and initialized
TransportConnected ==
    /\ UNCHANGED <<idsUsed, anthropicVars, catalog, unitVars>>
    /\ shellPc = "connect_transport"
    /\ shellPc' = "connect_session"
    /\ UNCHANGED <<argv, session, transport, cleanupCalls, full_context, linesRead,
                   dispatched, printedErrors, exitCode, child, readAttempts, pending>>
    /\ UNCHANGED engineVars

\* entering stdio_client, or initialize(), or the first list_tools() raises
ConnectRaises ==
    /\ UNCHANGED <<idsUsed, anthropicVars, catalog, unitVars>>
    /\ shellPc \in {"connect_transport", "connect_session"}
    /\ EnterFinally("connect")
    /\ UNCHANGED <<argv, session, transport, full_context, linesRead, dispatched,
                   printedErrors, exitCode, child, readAttempts>>
    /\ UNCHANGED engineVars

\* connect_to_server returns; chat_loop runs up to its first input()
SessionConnected ==
    /\ UNCHANGED <<idsUsed, anthropicVars, catalog, unitVars>>
    /\ shellPc = "connect_session"
    /\ session' = "open"
    /\ full_context' = InitialContext
    /\ shellPc' = "read"
    /\ UNCHANGED <<argv, transport, cleanupCalls, linesRead, dispatched,
                   printedErrors, exitCode, child, readAttempts, pending>>
    /\ UNCHANGED engineVars

\* connect_to_server returns; count_tokens raises before the loop is entered
TokenizerRaises ==
    /\ UNCHANGED <<idsUsed, anthropicVars, catalog, unitVars>>
    /\ shellPc = "connect_session"
    /\ session' = "open"
    /\ full_context' = InitialContext
    /\ EnterFinally("count_tokens")
    /\ UNCHANGED <<argv, transport, linesRead, dispatched, printedErrors, exitCode,
                   child, readAttempts>>
    /\ UNCHANGED engineVars

\* no frame of process_query_openai is left: its locals are gone, and a
\* request it was awaiting is abandoned
EngineUnwound ==
    /\ enginePc' = "idle"
    /\ messages' = <<>>
    /\ final_text' = <<>>
    /\ available_tools' = <<>>
    /\ listCalls' = 0
    /\ tool_calls' = <<>>
    /\ toolIdx' = 0
    /\ modelCalls' = 0
    /\ responses' = <<>>
    /\ invocations' = <<>>
    /\ failedCalls' = {}
    /\ modelOut' = 0
    /\ toolOut' = 0
    /\ raisedBy' = "none"
    /\ returned' = <<>>

\* the locals of process_query_openai when it is called with `query`
EngineStart(query) ==
    /\ messages' = <<UserMessage(query)>>
    /\ final_text' = <<>>
    /\ available_tools' = <<>>
    /\ listCalls' = 0
    /\ tool_calls' = <<>>
    /\ toolIdx' = 0
    /\ modelCalls' = 0
    /\ responses' = <<>>
    /\ invocations' = <<>>
    /\ failedCalls' = {}
    /\ modelOut' = 0
    /\ toolOut' = 0
    /\ returned' = <<>>
    /\ IF session = "none"
       THEN enginePc' = "raised" /\ raisedBy' = "RuntimeError"
       ELSE enginePc' = "list_tools" /\ raisedBy' = "none"

\* input() returns a line: quit leaves the loop, any other line is dispatched
ReadLine ==
    /\ UNCHANGED <<idsUsed, anthropicVars, catalog, unitVars>>
    /\ shellPc = "read"
    /\ readAttempts < MaxTurns
    /\ \E line \in InputLines :
        LET query == Strip(line)
            context == full_context \o UserLine(query)
        IN
        /\ linesRead' = Append(linesRead, line)
        /\ readAttempts' = readAttempts + 1
        /\ IF IsQuit(query)
           THEN /\ EnterFinally("none")
                /\ UNCHANGED <<full_context, dispatched, printedErrors>>
                /\ EngineUnwound
           ELSE /\ full_context' = context
                /\ dispatched' = Append(dispatched,
                                        [input |-> query, query |-> context \o query])
                /\ EngineStart(context \o query)
                /\ IF session = "none"
                   THEN /\ printedErrors' = printedErrors + 1
                        /\ shellPc' = "read"
                   ELSE /\ shellPc' = "engine"
                        /\ UNCHANGED printedErrors
                /\ UNCHANGED <<cleanupCalls, pending>>
    /\ UNCHANGED <<argv, session, transport, exitCode, child>>

\* ReadRaises with end of input taken as the end of the session
ReadRaises_endsLoop ==
    /\ UNCHANGED <<idsUsed, anthropicVars, catalog, unitVars>>
    /\ shellPc = "read"
    /\ readAttempts < MaxTurns
    /\ readAttempts' = readAttempts + 1
    /\ EnterFinally("none")
    /\ UNCHANGED <<argv, session, transport, full_context, linesRead, dispatched,
                   printedErrors, exitCode, child>>
    /\ EngineUnwound

\* input() raises an Exception (end of input): it is printed, the loop goes on
ReadRaises ==
    /\ UNCHANGED <<idsUsed, anthropicVars, catalog, unitVars>>
    /\ shellPc = "read"
    /\ readAttempts < MaxTurns
    /\ readAttempts' = readAttempts + 1
    /\ printedErrors' = printedErrors + 1
    /\ UNCHANGED <<shellPc, argv, session, transport, cleanupCalls, full_context,
                   linesRead, dispatched, exitCode, child, pending>>
    /\ EngineUnwound

\* KeyboardInterrupt or cancellation at an await of main(): no except clause
\* takes it, the finally block runs
Interrupt ==
    /\ UNCHANGED <<idsUsed, anthropicVars, catalog, unitVars>>
    /\ shellPc \in {"connect_transport", "connect_session", "read", "engine"}
    /\ EnterFinally("interrupt")
    /\ EngineUnwound
    /\ UNCHANGED <<argv, session, transport, full_context, linesRead, dispatched,
                   printedErrors, exitCode, child, readAttempts>>

\* exit_stack.aclose() is done: main() ends, with the pending exception if any
CleanupDone ==
    /\ UNCHANGED <<idsUsed, anthropicVars, catalog, unitVars>>
    /\ shellPc = "cleanup"
    /\ transport' = IF transport = "open" THEN "released" ELSE transport
    /\ session' = "none"
    /\ shellPc' = "exited"
    /\ exitCode' = IF pending = "none" THEN 0 ELSE 1
    /\ UNCHANGED <<argv, cleanupCalls, full_context, linesRead, dispatched,
                   printedErrors, child, readAttempts, pending>>
    /\ UNCHANGED engineVars

ShellNext ==
    \/ MainStart
    \/ TransportConnected
    \/ ConnectRaises
    \/ SessionConnected
    \/ TokenizerRaises
    \/ ReadLine
    \/ ReadRaises
    \/ Interrupt
    \/ CleanupDone

(***************************************************************************)
(* process_query_anthropic.  The backend and the tool provider answer from *)
(* a script: aScript holds the responses of the successive messages.create *)
(* calls, aOutcomes the results of the successive call_tool calls.         *)
(***************************************************************************)
TextBlock(text) == [type |-> "text", text |-> text]

ToolUseBlock(id, name, input) ==
    [type |-> "tool_use", id |-> id, name |-> name, input |-> input]

RECURSIVE PyRepr(_)
\* str() of a tool_args value, as the f-string formats it
PyRepr(c) ==
    IF c.kind = "null" THEN <<"None">>
    ELSE IF c.kind = "str" THEN <<"'">> \o c.s \o <<"'">>
    ELSE IF c.kind = "list" THEN
        <<"[">> \o JoinWith(<<",", " ">>,
                     [i \in 1..Len(c.items) |-> PyRepr(c.items[i])]) \o <<"]">>
    ELSE IF c.kind = "dict" THEN
        <<"{">> \o JoinWith(<<",", " ">>,
                     [i \in 1..Len(c.entries) |->
                        <<"'">> \o c.entries[i].k \o <<"'", ":", " ">>
                            \o PyRepr(c.entries[i].v)]) \o <<"}">>
    ELSE c.repr

\* f"[Calling tool {tool_name} with args {tool_args}]"
CallingToolText(tool_name, tool_args) ==
    <<"[Calling tool ", tool_name, " with args ">> \o PyRepr(tool_args) \o <<"]">>

\* available_tools of process_query_anthropic
SchemaAnthropic(tools) ==
    [i \in 1..Len(tools) |->
        [name |-> tools[i].name, description |-> tools[i].description,
         input_schema |-> tools[i].inputSchema]]

\* the user message that carries one tool result
ToolResultMessage(block, result) ==
    [role |-> "user",
     content |-> << [type |-> "tool_result", tool_use_id |-> block.id,
                     content |-> result.content] >>]

\* the history as a messages.create call sends it: every assistant entry
\* shows the list assistant_message_content as it is at that moment
AnthropicHistory(history, assistant_message_content) ==
    [i \in 1..Len(history) |->
        IF history[i].role = "assistant"
        THEN [role |-> "assistant", content |-> assistant_message_content]
        ELSE history[i]]

\* the position of the first tool_use block at or after i, 0 if there is none
NextToolUse(blocks, i) ==
    LET at == {j \in i..Len(blocks) : blocks[j].type = "tool_use"}
    IN IF at = {} THEN 0 ELSE CHOOSE j \in at : \A k \in at : j <= k

\* the text blocks among blocks[i..j], in order
TextBlocksIn(blocks, i, j) ==
    SelectSeq(SubSeq(blocks, i, j), LAMBDA b : b.type = "text")

\* the for loop from position i on, with the buffers as given: text blocks
\* are taken up to the next tool_use block, whose call_tool is then awaited,
\* or up to the end, where the function returns
AnthropicLoopFrom(blocks, i, buffer, assistant) ==
    LET j == NextToolUse(blocks, i)
        last == IF j = 0 THEN Len(blocks) ELSE j - 1
        texts == TextBlocksIn(blocks, i, last)
        buffer2 == buffer \o [k \in 1..Len(texts) |-> texts[k].text]
    IN /\ aFinal' = buffer2
       /\ aAssistant' = assistant \o texts
       /\ IF j = 0
          THEN /\ aPc' = "done"
               /\ aReturned' = JoinNL(buffer2)
               /\ UNCHANGED <<aIdx, aInvocations>>
          ELSE /\ aPc' = "await_tool"
               /\ aIdx' = j
               /\ aInvocations' = Append(aInvocations,
                                         [id |-> blocks[j].id, name |-> blocks[j].name,
                                          arguments |-> blocks[j].input])
               /\ UNCHANGED aReturned

AnthropicIdle ==
    /\ aPc = "idle"
    /\ aMessages = <<>>
    /\ aAssistant = <<>>
    /\ aFinal = <<>>
    /\ aContent = <<>>
    /\ aIdx = 0
    /\ aScript = <<>>
    /\ aOutcomes = <<>>
    /\ aModelCalls = 0
    /\ aInvocations = <<>>
    /\ aReturned = <<>>

\* process_query_anthropic is called with `query`; the backend and the
\* provider will answer from `script` and `outcomes`
AnthropicStart(query, script, outcomes) ==
    /\ aPc' = "list_tools"
    /\ aMessages' = <<UserMessage(query)>>
    /\ aScript' = script
    /\ aOutcomes' = outcomes
    /\ aAssistant' = <<>>
    /\ aFinal' = <<>>
    /\ aContent' = <<>>
    /\ aIdx' = 0
    /\ aModelCalls' = 0
    /\ aInvocations' = <<>>
    /\ aReturned' = <<>>

\* list_tools() answers; the initial messages.create call is made
AListToolsReturn ==
    /\ aPc = "list_tools"
    /\ aPc' = "await_model"
    /\ aModelCalls' = aModelCalls + 1
    /\ UNCHANGED <<aMessages, aAssistant, aFinal, aContent, aIdx, aScript,
                   aOutcomes, aInvocations, aReturned>>
    /\ UNCHANGED <<shellVars, engineVars, idsUsed, catalog, unitVars>>

\* the initial response arrives: the for loop starts on its content
AModelReturn ==
    /\ aPc = "await_model"
    /\ aScript # <<>>
    /\ aContent' = Head(aScript)
    /\ aScript' = Tail(aScript)
    /\ AnthropicLoopFrom(Head(aScript), 1, <<>>, <<>>)
    /\ UNCHANGED <<aMessages, aOutcomes, aModelCalls>>
    /\ UNCHANGED <<shellVars, engineVars, idsUsed, catalog, unitVars>>

\* call_tool answers: the marker line, the two history entries, and the
\* follow-up messages.create call
AToolReturn ==
    /\ aPc = "await_tool"
    /\ aOutcomes # <<>>
    /\ aOutcomes' = Tail(aOutcomes)
    /\ aFinal' = Append(aFinal, CallingToolText(aContent[aIdx].name,
                                                aContent[aIdx].input))
    /\ aAssistant' = Append(aAssistant, aContent[aIdx])
    /\ aMessages' = aMessages \o << [role |-> "assistant"],
                                    ToolResultMessage(aContent[aIdx], Head(aOutcomes)) >>
    /\ aModelCalls' = aModelCalls + 1
    /\ aPc' = "await_followup"
    /\ UNCHANGED <<aContent, aIdx, aScript, aInvocations, aReturned>>
    /\ UNCHANGED <<shellVars, engineVars, idsUsed, catalog, unitVars>>

\* the follow-up response arrives: the text of its first block is taken
\* (an exception if it has none), and the for loop goes on over the content
\* of the initial response
AFollowupReturn ==
    /\ aPc = "await_followup"
    /\ aScript # <<>>
    /\ aScript' = Tail(aScript)
    /\ LET response == Head(aScript)
       IN IF response = <<>> \/ response[1].type # "text"
          THEN /\ aPc' = "raised"
               /\ UNCHANGED <<aFinal, aAssistant, aIdx, aInvocations, aReturned>>
          ELSE AnthropicLoopFrom(aContent, aIdx + 1,
                                 Append(aFinal, response[1].text), aAssistant)
    /\ UNCHANGED <<aMessages, aContent, aOutcomes, aModelCalls>>
    /\ UNCHANGED <<shellVars, engineVars, idsUsed, catalog, unitVars>>

(***************************************************************************)
(* The two variants side by side: a finished run of process_query_openai   *)
(* is replayed through process_query_anthropic, the backend giving the     *)
(* same text and tool calls and the provider the same results.             *)
(***************************************************************************)
\* a completion as the content blocks of the other backend: its text, if
\* any, then one tool_use block per tool call
AsContentBlocks(response) ==
    LET text == ContentToText(response.content)
    IN (IF text # <<>> THEN <<TextBlock(text)>> ELSE <<>>)
       \o [j \in 1..Len(response.tool_calls) |->
            ToolUseBlock(response.tool_calls[j].id,
                         response.tool_calls[j].function.name,
                         ParseArguments(response.tool_calls[j].function.arguments))]

\* the result call_tool gave for the k-th invocation of the finished run: the
\* one whose text its tool message carries
OutcomeOf(k) ==
    LET tools == SelectSeq(messages, LAMBDA m : m.role = "tool")
    IN CHOOSE result \in ToolResults(invocations[k].name) :
            CStr(ToolResponseText(result)) = tools[k].content

\* the finished run used tool calls the way the single-call variant resolves
\* them: none, or one in the first completion and none after
SingleCallPattern ==
    /\ enginePc = "done"
    /\ \/ Len(responses) = 1
       \/ Len(responses) = 2 /\ Len(responses[1].tool_calls) = 1

\* process_query_anthropic is called on the query of the finished run
AReplayStart ==
    /\ aPc = "idle"
    /\ SingleCallPattern
    /\ AnthropicStart(messages[1].content.s,
                      [k \in 1..Len(responses) |-> AsContentBlocks(responses[k])],
                      [k \in 1..Len(invocations) |-> OutcomeOf(k)])
    /\ UNCHANGED <<shellVars, engineVars, idsUsed, catalog, unitVars>>

\* list_tools(), messages.create or call_tool raises: the exception leaves
\* process_query_anthropic, which catches nothing
ARaises ==
    /\ aPc \in {"list_tools", "await_model", "await_tool", "await_followup"}
    /\ aPc' = "raised"
    /\ UNCHANGED <<aMessages, aAssistant, aFinal, aContent, aIdx, aScript,
                   aOutcomes, aModelCalls, aInvocations, aReturned>>
    /\ UNCHANGED <<shellVars, engineVars, idsUsed, catalog, unitVars>>

AnthropicNext ==
    \/ AListToolsReturn
    \/ AModelReturn
    \/ AToolReturn
    \/ AFollowupReturn
    \/ ARaises

(***************************************************************************)
(* process_query_anthropic called on its own, with a backend that answers  *)
(* any of AnthropicScripts.                                                *)
(***************************************************************************)
\* content blocks the first response has at most
MaxBlocks == 3

\* the tool_use block at position i of a response: its id says which response
\* and which position it comes from
ToolUseAt(response, i, name) == ToolUseBlock(10 * response + i, name, EmptyObject)

\* the contents a first response can have: text blocks and tool_use blocks in
\* any order
FirstResponses ==
    UNION { { [i \in 1..n |-> IF pick[i] = "text" THEN TextBlock(<<"a">>)
                              ELSE ToolUseAt(1, i, pick[i])] :
                pick \in [1..n -> {"text", "get_current_date", UnknownTool}] } :
            n \in 0..MaxBlocks }

\* the contents a follow-up response can have: a text, a text and a tool_use
\* block, a tool_use block first, nothing
FollowupResponses ==
    { <<TextBlock(<<"b">>)>>,
      <<TextBlock(<<"b">>), ToolUseAt(2, 2, "get_current_date")>>,
      <<ToolUseAt(2, 1, "get_current_date")>>,
      <<>> }

ToolUsesOf(blocks) == SelectSeq(blocks, LAMBDA b : b.type = "tool_use")

\* a first response, then one follow-up response per tool_use block of it
AnthropicScripts ==
    UNION { { <<first>> \o followups :
                followups \in [1..Len(ToolUsesOf(first)) -> FollowupResponses] } :
            first \in FirstResponses }

\* one result per tool_use block of the first response
OutcomesFor(first) ==
    { o \in [1..Len(ToolUsesOf(first)) -> UNION {ToolResults(n) : n \in {"get_current_date", UnknownTool}}] :
        \A k \in 1..Len(ToolUsesOf(first)) : o[k] \in ToolResults(ToolUsesOf(first)[k].name) }

(***************************************************************************)
(* _content_to_text called on its own.                                     *)
(***************************************************************************)
\* items a list argument has at most
MaxItems == 3

ListsOver(items, lo, hi) ==
    UNION { { CList(f) : f \in [1..n -> items] } : n \in lo..hi }

NormAtoms == {CNull, CStr(<<>>), CStr(<<"a">>), CStr(<<"b">>)}

OpaqueObject == CObj(FALSE, CNull, <<"<object>">>)

NormObjects ==
    { CObj(TRUE, CStr(<<"t">>), <<"<object>">>),
      CObj(TRUE, CNull, <<"<object>">>),
      OpaqueObject }

TupleKeyRecord == CDict(<<TupleKeyEntry(<<"(1, 2)">>, CStr(<<"v">>))>>)

NormRecords ==
    { CDict(<<>>),
      CDict(<<Entry(TextKey, CStr(<<"t">>))>>),
      CDict(<<Entry(<<"k">>, CStr(<<"v">>)), Entry(TextKey, CStr(<<"t", "\"">>))>>),
      CDict(<<Entry(TextKey, CNull)>>),
      CDict(<<Entry(TextKey, CList(<<CStr(<<"a">>)>>))>>),
      CDict(<<Entry(<<"k">>, OpaqueObject)>>),
      CDict(<<Entry(<<"k">>, CList(<<CStr(<<"a">>), CNull>>))>>),
      TupleKeyRecord,
      CDict(<<TupleKeyEntry(<<"(1, 2)">>, CStr(<<"v">>)),
              Entry(TextKey, CStr(<<"t">>))>>),
      CDict(<<Entry(<<"k">>, TupleKeyRecord)>>) }

\* lists of atoms, the empty list among them
NormFlatLists == ListsOver(NormAtoms, 0, MaxItems)

\* lists of records, objects and lists, down to three levels of lists
NormNestedLists ==
    ListsOver(NormRecords \cup NormObjects
                \cup { CList(<<>>), CList(<<CStr(<<"a">>)>>),
                       CList(<<CList(<<CList(<<CStr(<<"b">>)>>)>>), CStr(<<>>)>>) },
              1, 2)

\* the arguments _content_to_text is called with
NormContents ==
    NormAtoms \cup NormObjects \cup NormRecords \cup NormFlatLists
        \cup NormNestedLists

\* _content_to_text(normInput) returns
NormalizerReturns ==
    /\ normPc = "ready"
    /\ ~ContentToTextRaises(normInput)
    /\ normResult' = ContentToText(normInput)
    /\ normPc' = "returned"
    /\ UNCHANGED <<normInput, schemaPc, openaiSchema, anthropicSchema>>
    /\ UNCHANGED <<shellVars, engineVars, idsUsed, anthropicVars, catalog>>

\* _content_to_text(normInput) raises
NormalizerRaises ==
    /\ normPc = "ready"
    /\ ContentToTextRaises(normInput)
    /\ normPc' = "raised"
    /\ UNCHANGED <<normInput, normResult, schemaPc, openaiSchema, anthropicSchema>>
    /\ UNCHANGED <<shellVars, engineVars, idsUsed, anthropicVars, catalog>>

NormalizerNext == NormalizerReturns \/ NormalizerRaises

(***************************************************************************)
(* The two schema translations called on their own, and a provider whose   *)
(* catalog changes.                                                        *)
(***************************************************************************)
\* tools a catalog has at most
MaxTools == 3

ToolNames == {"get_current_date", "search_web", "get_context_from_url"}

InputSchemas == {CDict(<<>>), CDict(<<Entry(<<"q">>, CStr(<<"s">>))>>)}

Descriptions == {"Get the current date", ""}

\* the catalogs list_tools() may answer with: every tool name at most once
Catalogs ==
    UNION { { c \in [1..n -> { ToolDescriptor(name, d, schema) :
                                 name \in ToolNames, d \in Descriptions,
                                 schema \in InputSchemas }] :
                 \A i, j \in 1..n : i # j => c[i].name # c[j].name } :
            n \in 0..MaxTools }

\* the list comprehension of process_query_openai over response.tools
TranslateForOpenAI ==
    /\ schemaPc = "ready"
    /\ openaiSchema' = SchemaOpenAI(catalog)
    /\ schemaPc' = "openai"
    /\ UNCHANGED <<normPc, normInput, normResult, anthropicSchema>>
    /\ UNCHANGED <<shellVars, engineVars, idsUsed, anthropicVars, catalog>>

\* the list comprehension of process_query_anthropic over response.tools
TranslateForAnthropic ==
    /\ schemaPc = "openai"
    /\ anthropicSchema' = SchemaAnthropic(catalog)
    /\ schemaPc' = "translated"
    /\ UNCHANGED <<normPc, normInput, normResult, openaiSchema>>
    /\ UNCHANGED <<shellVars, engineVars, idsUsed, anthropicVars, catalog>>

SchemaNext == TranslateForOpenAI \/ TranslateForAnthropic

\* the catalogs the provider of a running session switches between
ProviderCatalogs == {Catalog, <<Catalog[1]>>}

\* the provider's catalog changes while a query is being processed (the
\* provider was restarted, or registered or dropped a tool)
CatalogChanges ==
    /\ shellPc = "engine"
    /\ catalog' \in ProviderCatalogs \ {catalog}
    /\ UNCHANGED <<shellVars, engineVars, idsUsed, anthropicVars, unitVars>>

\* neither _content_to_text nor a schema translation is being called on its own
UnitIdle ==
    /\ normPc = "idle"
    /\ normInput = CNull
    /\ normResult = <<>>
    /\ schemaPc = "idle"
    /\ openaiSchema = <<>>
    /\ anthropicSchema = <<>>

(***************************************************************************)
(* Specifications.                                                         *)
(***************************************************************************)
EngineIdle ==
    /\ enginePc = "idle"
    /\ messages = <<>>
    /\ final_text = <<>>
    /\ available_tools = <<>>
    /\ listCalls = 0
    /\ tool_calls = <<>>
    /\ toolIdx = 0
    /\ modelCalls = 0
    /\ responses = <<>>
    /\ invocations = <<>>
    /\ failedCalls = {}
    /\ modelOut = 0
    /\ toolOut = 0
    /\ raisedBy = "none"
    /\ returned = <<>>

\* the process is started, with or without a server-script path
Init ==
    /\ shellPc = "start"
    /\ argv \in {<<>>} \cup {<<path>> : path \in ScriptPaths}
    /\ session = "none"
    /\ transport = "none"
    /\ cleanupCalls = 0
    /\ full_context = <<>>
    /\ linesRead = <<>>
    /\ dispatched = <<>>
    /\ printedErrors = 0
    /\ exitCode = "running"
    /\ child = "none"
    /\ readAttempts = 0
    /\ pending = "none"
    /\ idsUsed = 0
    /\ AnthropicIdle
    /\ catalog = Catalog
    /\ UnitIdle
    /\ EngineIdle

\* main() has not run
ShellIdle ==
    /\ shellPc = "start"
    /\ argv = <<>>
    /\ session = "none"
    /\ transport = "none"
    /\ cleanupCalls = 0
    /\ full_context = <<>>
    /\ linesRead = <<>>
    /\ dispatched = <<>>
    /\ printedErrors = 0
    /\ exitCode = "running"
    /\ child = "none"
    /\ readAttempts = 0
    /\ pending = "none"
    /\ idsUsed = 0

Next == ShellNext \/ EngineNext

\* the whole program: main() with the shell and the engine it dispatches to
Spec == Init /\ [][Next]_vars

\* one query: the state chat_loop dispatches its first line in, and the steps
\* of process_query_openai from there
InitEngine ==
    /\ shellPc = "engine"
    /\ argv \in {<<path>> : path \in {<<"s", ".", "p", "y">>}}
    /\ session = "open"
    /\ transport = "open"
    /\ cleanupCalls = 0
    /\ \E line \in {l \in InputLines : ~IsQuit(Strip(l))} :
        /\ full_context = InitialContext \o UserLine(Strip(line))
        /\ linesRead = <<line>>
        /\ dispatched = <<[input |-> Strip(line),
                           query |-> full_context \o Strip(line)]>>
        /\ messages = <<UserMessage(full_context \o Strip(line))>>
    /\ printedErrors = 0
    /\ exitCode = "running"
    /\ child = "python"
    /\ readAttempts = 1
    /\ pending = "none"
    /\ idsUsed = 0
    /\ AnthropicIdle
    /\ catalog = Catalog
    /\ UnitIdle
    /\ enginePc = "list_tools"
    /\ final_text = <<>>
    /\ available_tools = <<>>
    /\ listCalls = 0
    /\ tool_calls = <<>>
    /\ toolIdx = 0
    /\ modelCalls = 0
    /\ responses = <<>>
    /\ invocations = <<>>
    /\ failedCalls = {}
    /\ modelOut = 0
    /\ toolOut = 0
    /\ raisedBy = "none"
    /\ returned = <<>>

\* one query in which every await of the engine returns: no call raises and
\* none is left unanswered
EngineReturns == ListToolsReturn \/ ModelReturn \/ ToolReturn

SpecEngineLive ==
    /\ InitEngine
    /\ [][EngineReturns]_vars
    /\ WF_vars(ListToolsReturn) /\ WF_vars(ModelReturn) /\ WF_vars(ToolReturn)

\* _content_to_text is about to be called with one of NormContents
InitNormalizer ==
    /\ ShellIdle
    /\ EngineIdle
    /\ AnthropicIdle
    /\ catalog = Catalog
    /\ normPc = "ready"
    /\ normInput \in NormContents
    /\ normResult = <<>>
    /\ schemaPc = "idle"
    /\ openaiSchema = <<>>
    /\ anthropicSchema = <<>>

SpecNormalizer == InitNormalizer /\ [][NormalizerNext]_vars

\* list_tools() has answered with one of Catalogs
InitSchema ==
    /\ ShellIdle
    /\ EngineIdle
    /\ AnthropicIdle
    /\ catalog \in Catalogs
    /\ normPc = "idle"
    /\ normInput = CNull
    /\ normResult = <<>>
    /\ schemaPc = "ready"
    /\ openaiSchema = <<>>
    /\ anthropicSchema = <<>>

SpecSchema == InitSchema /\ [][SchemaNext]_vars

\* one query, with a provider whose catalog may change at any moment
SpecCatalog == InitEngine /\ [][EngineNext \/ CatalogChanges]_vars

\* process_query_anthropic has been called with the query "hi" on a connected
\* session and awaits list_tools()
InitAnthropic ==
    /\ shellPc = "read"
    /\ argv = << <<"s", ".", "p", "y">> >>
    /\ session = "open"
    /\ transport = "open"
    /\ cleanupCalls = 0
    /\ full_context = InitialContext
    /\ linesRead = <<>>
    /\ dispatched = <<>>
    /\ printedErrors = 0
    /\ exitCode = "running"
    /\ child = "python"
    /\ readAttempts = 0
    /\ pending = "none"
    /\ idsUsed = 0
    /\ EngineIdle
    /\ catalog = Catalog
    /\ UnitIdle
    /\ aPc = "list_tools"
    /\ aMessages = <<UserMessage(<<"h", "i">>)>>
    /\ aScript \in AnthropicScripts
    /\ aOutcomes \in OutcomesFor(aScript[1])
    /\ aAssistant = <<>>
    /\ aFinal = <<>>
    /\ aContent = <<>>
    /\ aIdx = 0
    /\ aModelCalls = 0
    /\ aInvocations = <<>>
    /\ aReturned = <<>>

SpecAnthropic == InitAnthropic /\ [][AnthropicNext]_vars

\* one query through both variants
SpecEquiv == InitEngine /\ [][EngineNext \/ AReplayStart \/ AnthropicNext]_vars

(***************************************************************************)
(* Claims.                                                                 *)
(***************************************************************************)
AssistantIdxs == {i \in 1..Len(messages) : messages[i].role = "assistant"}

ToolIdxs == {k \in 1..Len(messages) : messages[k].role = "tool"}

\* the tool-call requests of the history: <<message index, position>>
Requests ==
    UNION { {<<i, j>> : j \in 1..Len(messages[i].tool_calls)} : i \in AssistantIdxs }

RequestId(r) == messages[r[1]].tool_calls[r[2]].id

ToolMessagesFor(id) == {k \in ToolIdxs : messages[k].tool_call_id = id}

\* C1: whenever a model call is outstanding, every tool-call request of the
\* history is answered by exactly one tool message with its call id, placed
\* after the assistant message that carries it; and every tool message answers
\* exactly one earlier request.
C1_RequestsAnsweredAtModelCall ==
    /\ enginePc = "await_model" =>
         \A r \in Requests :
            /\ Cardinality(ToolMessagesFor(RequestId(r))) = 1
            /\ \A k \in ToolMessagesFor(RequestId(r)) : k > r[1]
    /\ \A k \in ToolIdxs :
         Cardinality({r \in Requests :
                        RequestId(r) = messages[k].tool_call_id /\ r[1] < k}) = 1

\* a model call issued after a round of two tool calls
C1_Witness ==
    /\ enginePc = "await_model"
    /\ \E i \in AssistantIdxs : Len(messages[i].tool_calls) = 2

\* a finished run whose first completion carried one tool call and whose
\* second carried none
C2_Scenario ==
    /\ enginePc = "done"
    /\ Len(responses) = 2
    /\ Len(responses[1].tool_calls) = 1

\* one invocation, one tool message keyed to the call id, two model calls
C2_Counts ==
    /\ Len(invocations) = 1
    /\ invocations[1].id = responses[1].tool_calls[1].id
    /\ Cardinality(ToolIdxs) = 1
    /\ \A k \in ToolIdxs : messages[k].tool_call_id = responses[1].tool_calls[1].id
    /\ modelCalls = 2

\* C2 as claimed: in a run of one tool call followed by a tool-call-free
\* completion there is one invocation, one tool message keyed to the call id,
\* two model calls, and the returned text is the text of the second completion
\* alone, whatever the text of the first.
C2_ReturnsSecondTextOnly ==
    C2_Scenario =>
        /\ C2_Counts
        /\ returned = ContentToText(responses[2].content)

\* C2 amended: the counts as claimed; the returned text is the newline-join of
\* the non-empty texts of the first and the second completion, in that order.
C2_ReturnsJoinedTexts ==
    C2_Scenario =>
        /\ C2_Counts
        /\ returned = JoinNL(NonEmpty(<<ContentToText(responses[1].content),
                                        ContentToText(responses[2].content)>>))

\* such a run in which both completions carried text
C2_Witness ==
    /\ C2_Scenario
    /\ ContentToText(responses[1].content) # <<>>
    /\ ContentToText(responses[2].content) # <<>>

\* C3: a run whose first completion carries no tool calls makes one model
\* call, invokes no tool, leaves the history as seeded and returns the
\* normalized text of that completion.
C3_ToolFreeFirstResponse ==
    (enginePc = "done" /\ Len(responses) = 1) =>
        /\ modelCalls = 1
        /\ invocations = <<>>
        /\ messages = <<UserMessage(dispatched[Len(dispatched)].query)>>
        /\ returned = ContentToText(responses[1].content)

\* such a run, returning text
C3_Witness ==
    /\ enginePc = "done"
    /\ Len(responses) = 1
    /\ returned = <<"a">>

\* C4: a failed tool invocation (unknown tool name, failed channel) does not
\* leave the engine: call_tool never raises out of process_query_openai, and
\* every failed call has a tool message with a non-empty error text.
C4_ToolFailureStaysInEngine ==
    /\ ~(enginePc = "raised" /\ raisedBy = "call_tool")
    /\ \A id \in failedCalls :
         \E k \in ToolMessagesFor(id) : messages[k].content.s # <<>>

\* the requests whose arguments payload is the string "not json"
MalformedRequests ==
    {r \in Requests :
        messages[r[1]].tool_calls[r[2]].function.arguments = CStr(NotJson)}

InvocationsFor(id) == {k \in 1..Len(invocations) : invocations[k].id = id}

\* C5: a tool call whose arguments do not parse is invoked with the empty
\* object; it is not skipped (while its call_tool is awaited it is the last
\* invocation made; at the next model call and at the return it has one
\* invocation and one tool message); and the engine is left by an exception
\* only where an await raised.
C5_MalformedArgumentsBecomeEmptyObject ==
    /\ \A r \in MalformedRequests :
         \A k \in InvocationsFor(RequestId(r)) : invocations[k].arguments = EmptyObject
    /\ enginePc = "await_tool" =>
         /\ invocations # <<>>
         /\ invocations[Len(invocations)].id = tool_calls[toolIdx].id
    /\ enginePc \in {"await_model", "done"} =>
         \A r \in MalformedRequests :
            /\ Cardinality(InvocationsFor(RequestId(r))) = 1
            /\ Cardinality(ToolMessagesFor(RequestId(r))) = 1
    /\ enginePc = "raised" =>
         raisedBy \in {"list_tools", "create_completion", "call_tool"}

\* a model call issued after a call with malformed arguments was invoked
\* with {} and answered
C5_Witness ==
    /\ enginePc = "await_model"
    /\ \E r \in MalformedRequests :
         /\ \E k \in InvocationsFor(RequestId(r)) : invocations[k].arguments = EmptyObject
         /\ ToolMessagesFor(RequestId(r)) # {}

\* C6: cleanup() is invoked exactly once on every exit path of main() after
\* the client is created, never before the finally block, and the transport
\* is released by it.
C6_CleanupExactlyOnce ==
    /\ cleanupCalls \in {0, 1}
    /\ shellPc \in {"cleanup", "exited"} /\ Len(argv) >= 1 => cleanupCalls = 1
    /\ shellPc \notin {"cleanup", "exited"} => cleanupCalls = 0
    /\ shellPc = "exited" => transport # "open"
    /\ transport = "released" => cleanupCalls = 1

\* the process ended by an interrupt after a turn had raised
C6_Witness ==
    /\ shellPc = "exited"
    /\ pending = "interrupt"
    /\ dispatched # <<>>
    /\ printedErrors > 0
    /\ cleanupCalls = 1
    /\ transport = "released"

\* C7: when a dispatched query raises, the exception is printed, the shell is
\* back at input() with the session and the transport open and no cleanup
\* run; and every non-quit line read is dispatched to the engine, whatever
\* happened before.
C7_TurnExceptionCaught ==
    [][ /\ (enginePc # "raised" /\ enginePc' = "raised") =>
            /\ shellPc' = "read"
            /\ printedErrors' = printedErrors + 1
            /\ session' = "open"
            /\ transport' = "open"
            /\ cleanupCalls' = 0
        /\ (Len(linesRead') > Len(linesRead)
                /\ Lower(Strip(linesRead'[Len(linesRead')])) # Quit) =>
            /\ shellPc' = "engine"
            /\ enginePc' = "list_tools"
            /\ Len(dispatched') = Len(dispatched) + 1 ]_vars

\* a second query is in the engine after the first one raised
C7_Witness ==
    /\ printedErrors = 1
    /\ Len(dispatched) = 2
    /\ shellPc = "engine"
    /\ enginePc = "await_model"

\* the input lines that spell quit, in some letter case, between blanks
QuitLines == { <<"q", "u", "i", "t">>, <<" ", "Q", "u", "I", "T", " ">> }

\* C8: the engine is invoked once per non-quit line read, in input order, with
\* a query that ends with that line; a quit line is the last line read and
\* leaves the loop without an engine call.
C8_OneDispatchPerNonQuitLine ==
    LET nonquit == SelectSeq(linesRead, LAMBDA l : l \notin QuitLines)
    IN /\ Len(dispatched) = Len(nonquit)
       /\ \A k \in 1..Len(nonquit) :
            /\ dispatched[k].input = Strip(nonquit[k])
            /\ Len(dispatched[k].query) >= Len(dispatched[k].input)
            /\ SubSeq(dispatched[k].query,
                      Len(dispatched[k].query) - Len(dispatched[k].input) + 1,
                      Len(dispatched[k].query)) = dispatched[k].input
       /\ \A i \in 1..(Len(linesRead) - 1) : linesRead[i] \notin QuitLines
       /\ (linesRead # <<>> /\ linesRead[Len(linesRead)] \in QuitLines) =>
            /\ shellPc \in {"cleanup", "exited"}
            /\ enginePc = "idle"

\* a query was dispatched, then QuIT between blanks ended the loop
C8_Witness ==
    /\ Len(linesRead) = 2
    /\ linesRead[2] = <<" ", "Q", "u", "I", "T", " ">>
    /\ Len(dispatched) = 1
    /\ shellPc = "exited"

\* the ids of the tool-call requests, in history order
RequestIdSeq ==
    Flatten([i \in 1..Len(messages) |->
                IF messages[i].role = "assistant"
                THEN [j \in 1..Len(messages[i].tool_calls) |->
                        messages[i].tool_calls[j].id]
                ELSE <<>>])

\* the call ids of the tool messages, in history order
ToolMessageIdSeq ==
    LET tools == SelectSeq(messages, LAMBDA m : m.role = "tool")
    IN [k \in 1..Len(tools) |-> tools[k].tool_call_id]

InvocationIdSeq == [k \in 1..Len(invocations) |-> invocations[k].id]

\* C9: at most one model call and at most one tool invocation is outstanding,
\* never both; tools are invoked in the order the backend returned the calls,
\* one at a time, and the tool messages are in that order in the history.
C9_OneOutstandingInBackendOrder ==
    /\ modelOut \in {0, 1}
    /\ toolOut \in {0, 1}
    /\ modelOut + toolOut <= 1
    /\ enginePc = "await_model" => modelOut = 1
    /\ enginePc = "await_tool" => toolOut = 1
    /\ IsPrefix(InvocationIdSeq, RequestIdSeq)
    /\ IsPrefix(ToolMessageIdSeq, InvocationIdSeq)
    /\ enginePc \in {"await_model", "await_tool", "done"} =>
         Len(InvocationIdSeq) - Len(ToolMessageIdSeq) = toolOut

\* a round of two tool calls, both answered
C9_Witness ==
    /\ \E i \in AssistantIdxs : Len(messages[i].tool_calls) = 2
    /\ Len(ToolMessageIdSeq) = 2
    /\ enginePc = "await_model"

\* both variants have returned, on the same query, texts and tool results
BothReturned == enginePc = "done" /\ aPc = "done"

\* C10: on the same query, model texts and tool outcomes the two variants
\* return the same text, in particular after one tool call followed by a
\* tool-call-free response.
C10_VariantsReturnSameText ==
    BothReturned => aReturned = returned

\* every completion received so far carried a tool call
EveryResponseHasToolCalls ==
    \A k \in 1..Len(responses) : responses[k].tool_calls # <<>>

\* the engine has asked for one completion per response received, plus the one
\* it is waiting for: it follows the backend round by round
RoundsFollowBackend ==
    /\ enginePc \in {"await_model"} => modelCalls = Len(responses) + 1
    /\ enginePc \in {"await_tool", "done"} => modelCalls = Len(responses)
    /\ EveryResponseHasToolCalls => enginePc # "done"
    /\ enginePc = "done" =>
         /\ responses[Len(responses)].tool_calls = <<>>
         /\ \A k \in 1..(Len(responses) - 1) : responses[k].tool_calls # <<>>

\* C11: when every model call and tool invocation returns and the backend
\* eventually answers without tool calls (here: it has handed out its MaxIds
\* ids), the engine reaches DONE; and the engine itself caps nothing: it is
\* DONE only at the first tool-call-free response, never while every response
\* carried a tool call, however many rounds that takes.
C11_TerminatesWithoutRoundCap ==
    /\ <>(enginePc = "done")
    /\ [](RoundsFollowBackend)

\* the backend asked for a tool call in every response it could, and the engine
\* went through all those rounds before it returned
C11_Witness ==
    /\ enginePc = "done"
    /\ Len(responses) = MaxIds + 1
    /\ modelCalls = MaxIds + 1

\* the number of lines of the context that start with `tag`
LinesTagged(tag) ==
    Cardinality({i \in 1..Len(full_context) : full_context[i] = tag})

\* the context is only ever extended
ContextGrows == IsPrefix(full_context, full_context')

\* a line is dispatched: the context gets its "User: ..." line, and the query
\* handed to the engine is that whole context followed by the input
DispatchExtendsContext ==
    Len(dispatched') = Len(dispatched) + 1 =>
        LET d == dispatched'[Len(dispatched')]
        IN /\ full_context' = full_context \o <<"User: ">> \o d.input \o <<NL>>
           /\ d.query = full_context' \o d.input
           /\ IsPrefix(full_context', d.query)

\* the engine returns: the context gets the "Assistant: ..." line with the
\* whole returned text
ReturnExtendsContext ==
    (enginePc # "done" /\ enginePc' = "done") =>
        full_context' = full_context \o <<"Assistant: ">> \o returned' \o <<NL>>

\* the engine raises: the context stays as the dispatch left it
RaiseKeepsContext ==
    (shellPc = "engine" /\ enginePc' = "raised") => full_context' = full_context

\* a turn ends, by a return or by an exception, and the context gets an
\* "Assistant: ..." line
EveryTurnEndAddsAssistantLine ==
    (shellPc = "engine" /\ shellPc' = "read") =>
        /\ Len(full_context') > Len(full_context) + 1
        /\ full_context'[Len(full_context) + 1] = "Assistant: "
        /\ full_context'[Len(full_context')] = NL

\* C12 as stated: the context only grows, the query of a turn has the whole
\* context as its prefix, and every dispatched turn leaves both its "User: ..."
\* line and an "Assistant: ..." line in the context.
C12_EveryTurnAddsBothLines ==
    [][ContextGrows /\ DispatchExtendsContext /\ EveryTurnEndAddsAssistantLine]_vars

\* C12: the context only grows; a dispatched line adds its "User: ..." line
\* and the query of the turn is the whole context followed by the input; a
\* turn whose engine call returns adds the "Assistant: ..." line with the full
\* output, and a turn whose engine call raises adds nothing more.
C12_ContextGrowsByTurn ==
    [][ContextGrows /\ DispatchExtendsContext /\ ReturnExtendsContext
         /\ RaiseKeepsContext]_vars

\* the second of two turns has returned a text, and both left their lines
C12_Witness ==
    /\ Len(dispatched) = 2
    /\ shellPc = "read" /\ enginePc = "done" /\ returned # <<>>
    /\ LinesTagged("User: ") = 2
    /\ LinesTagged("Assistant: ") = 2
    /\ Len(dispatched[2].query) > Len(dispatched[1].query)

\* C13: _content_to_text never raises, whatever it is called with: null, a
\* string, a list (empty, nested), a dict with any keys and values, an object.
C13_NormalizerTotal == normPc # "raised"

\* the normalized items of a list argument, in order
NormalizedItems(c) == [i \in 1..Len(c.items) |-> ContentToText(c.items[i])]

\* C14: what _content_to_text returns, case by case in the order of the
\* code: "" for null; the string for a string; for a list the newline-join
\* of the non-empty normalized items ("" for [], "a\nb" for ["a", "", "b"]);
\* for a dict with a string under "text" that string, not the serialization;
\* for any other dict its JSON serialization; for an object with a string
\* text attribute that value.
C14_CasesInOrder ==
    normPc = "returned" =>
        /\ normInput.kind = "null" => normResult = <<>>
        /\ normInput.kind = "str" => normResult = normInput.s
        /\ normInput.kind = "list" =>
             normResult = JoinWith(<<NL>>, SelectSeq(NormalizedItems(normInput),
                                                    LAMBDA t : Len(t) > 0))
        /\ normInput = CList(<<>>) => normResult = <<>>
        /\ normInput = CList(<<CStr(<<"a">>), CStr(<<>>), CStr(<<"b">>)>>) =>
             normResult = <<"a", NL, "b">>
        /\ (normInput.kind = "dict" /\ DictHasStrText(normInput)) =>
             /\ normResult = DictText(normInput).s
             /\ normResult # JsonDumps(normInput)
        /\ (normInput.kind = "dict" /\ ~DictHasStrText(normInput)) =>
             normResult = JsonDumps(normInput)
        /\ (normInput.kind = "obj" /\ normInput.hasText
                /\ normInput.text.kind = "str") =>
             normResult = normInput.text.s

\* a list with a record that carries a text field between an empty string and
\* a nested list has been normalized
C14_Witness ==
    /\ normPc = "returned"
    /\ normInput = CList(<<CDict(<<Entry(TextKey, CStr(<<"t">>))>>),
                           CList(<<CStr(<<"a">>)>>)>>)
    /\ normResult = <<"t", NL, "a">>

\* C15: for a catalog with unique names both translations give one entry per
\* tool, in catalog order, from which the name and the input schema of the
\* descriptor are read back unchanged, and tools with different names get
\* different entries.
C15_SchemaPreservesCatalog ==
    schemaPc = "translated" =>
        /\ Len(openaiSchema) = Len(catalog)
        /\ Len(anthropicSchema) = Len(catalog)
        /\ \A i \in 1..Len(catalog) :
             /\ openaiSchema[i].type = "function"
             /\ openaiSchema[i].function.name = catalog[i].name
             /\ openaiSchema[i].function.parameters = catalog[i].inputSchema
             /\ anthropicSchema[i].name = catalog[i].name
             /\ anthropicSchema[i].input_schema = catalog[i].inputSchema
        /\ \A i, j \in 1..Len(catalog) :
             catalog[i].name # catalog[j].name =>
                /\ openaiSchema[i] # openaiSchema[j]
                /\ anthropicSchema[i] # anthropicSchema[j]

\* a full catalog whose tools have different input schemas went through both
\* translations
C15_Witness ==
    /\ schemaPc = "translated"
    /\ Len(catalog) = MaxTools
    /\ Len(openaiSchema) = MaxTools /\ Len(anthropicSchema) = MaxTools
    /\ \E i, j \in 1..Len(catalog) : catalog[i].inputSchema # catalog[j].inputSchema

\* C16: every completion request of a query is preceded by its own
\* list_tools() query and carries the schema of the catalog as it is then, so
\* a catalog change between two rounds shows in the schema of the later round.
C16_SchemaFreshPerModelCall ==
    [][modelCalls' = modelCalls + 1 =>
          /\ listCalls' = modelCalls'
          /\ available_tools' = SchemaOpenAI(catalog)]_vars

\* the server-script paths that end in neither ".py" nor ".js"
UnsupportedPaths == { <<"s", ".", "t", "x", "t">>, <<"p", "y">> }

\* C17: started with a path of an unsupported extension, the program spawns
\* no child and opens no transport, never enters the read loop, and ends,
\* after one cleanup, with the ValueError and a non-zero exit.
C17_BadExtensionFailsFast ==
    (argv # <<>> /\ argv[1] \in UnsupportedPaths) =>
        /\ child = "none"
        /\ transport = "none"
        /\ session = "none"
        /\ shellPc \in {"start", "cleanup", "exited"}
        /\ readAttempts = 0 /\ linesRead = <<>> /\ dispatched = <<>>
        /\ shellPc = "cleanup" => (pending = "ValueError" /\ cleanupCalls = 1)
        /\ shellPc = "exited" =>
             (pending = "ValueError" /\ cleanupCalls = 1 /\ exitCode = 1)

\* the program was started with "s.txt" and has ended
C17_Witness ==
    /\ argv = << <<"s", ".", "t", "x", "t">> >>
    /\ shellPc = "exited"
    /\ exitCode = 1
    /\ cleanupCalls = 1

\* the read loop is left: a quit line was read, or an interrupt is in flight
LoopLeftByQuitOrInterrupt ==
    (shellPc \in {"read", "engine"} /\ shellPc' \notin {"read", "engine"}) =>
        \/ pending' = "interrupt"
        \/ /\ pending' = "none"
           /\ Len(linesRead') = Len(linesRead) + 1
           /\ linesRead'[Len(linesRead')] \in QuitLines

\* an Exception of an iteration is printed: the loop reads again, and nothing
\* is cleaned up
ExceptionFollowedByRead ==
    printedErrors' = printedErrors + 1 =>
        (shellPc' = "read" /\ cleanupCalls' = cleanupCalls)

\* no read has returned a line
EveryReadRaised == readAttempts > 0 /\ linesRead = <<>>

\* C19: the read loop is left only by a quit line or by an interrupt; every
\* Exception of an iteration, one raised by input() included, is followed by
\* another read; so while every read raises, the loop goes on and cleanup is
\* not reached unless an interrupt arrives.
C19_LoopLeftOnlyByQuitOrInterrupt ==
    /\ [][LoopLeftByQuitOrInterrupt /\ ExceptionFollowedByRead]_vars
    /\ [](EveryReadRaised =>
            \/ shellPc = "read" /\ cleanupCalls = 0
            \/ pending = "interrupt")

\* every read of the session raised, each was printed, and the loop is still
\* at input()
C19_Witness ==
    /\ EveryReadRaised
    /\ readAttempts = MaxTurns
    /\ printedErrors = MaxTurns
    /\ shellPc = "read"
    /\ cleanupCalls = 0

\* the history as the next messages.create call sends it
AHistory == AnthropicHistory(aMessages, aAssistant)

\* the tool_result entries for tool_use id `id` in message k of the history
ToolResultsIn(k, id) ==
    {j \in 1..Len(AHistory[k].content) :
        /\ AHistory[k].content[j].type = "tool_result"
        /\ AHistory[k].content[j].tool_use_id = id}

\* every tool_use block of an assistant message of the history has exactly one
\* tool_result entry with its id in the message after it
ToolUsesAnswered ==
    \A i \in 1..Len(AHistory) :
        AHistory[i].role = "assistant" =>
            \A b \in 1..Len(AHistory[i].content) :
                AHistory[i].content[b].type = "tool_use" =>
                    /\ i < Len(AHistory)
                    /\ AHistory[i + 1].role = "user"
                    /\ Cardinality(ToolResultsIn(i + 1, AHistory[i].content[b].id)) = 1

\* C18: a run of process_query_anthropic makes one model call plus one per
\* tool_use block of the first response and invokes exactly those blocks,
\* never one of a follow-up response; and at each follow-up model call every
\* tool_use block of an assistant message of the history is answered in the
\* message after it.
C18_SingleCallVariantCounts ==
    /\ aPc = "done" =>
         /\ aModelCalls = 1 + Len(ToolUsesOf(aContent))
         /\ Len(aInvocations) = Len(ToolUsesOf(aContent))
    /\ \A k \in 1..Len(aInvocations) :
         /\ k <= Len(ToolUsesOf(aContent))
         /\ aInvocations[k].id = ToolUsesOf(aContent)[k].id
    /\ aPc = "await_followup" => ToolUsesAnswered
====
